---- MODULE Spec2Model ----
(***************************************************************************)
(* The contact-submission pipeline of src/main.py (POST /contact):         *)
(* request validation, best-effort persistence, per-request mail           *)
(* configuration, the SMTP session and the composed response.              *)
(*                                                                         *)
(* Text values (environment values, addresses, identifiers) are sequences  *)
(* of one-character strings, so that parsing and truthiness are computed.  *)
(***************************************************************************)
EXTENDS Integers, Sequences, FiniteSets, TLC

VARIABLES
    env,         \* os.environ: variable name -> text, or None when unset
    db,          \* database.db: None when no database is configured
    documents,   \* contents of the "contactmessage" collection
    pc,          \* per request: position in submit_contact
    payload,     \* per request: the email field of the request body
    _id,         \* per request: the local _id
    cfg,         \* per request: the locals smtp_host .. smtp_to
    exc,         \* per request: an exception is propagating out of the with body
    email_sent,  \* per request: the local email_sent
    resp,        \* per request: what the caller receives
    storeLog,    \* per request: the outcomes of its create_document calls
    smtpLog,     \* per request: the SMTP commands issued, in order
    envLog       \* per request: the environment at each run of lines 85-90

vars == <<env, db, documents, pc, payload, _id, cfg, exc, email_sent, resp,
          storeLog, smtpLog, envLog>>

Requests == {1, 2}

\* Python's None: a value different from every text.
None == [i \in {0} |-> 0]

\* Python truthiness of an optional text: neither None nor "".
Truthy(v) == v # None /\ v # <<>>

\* Python's `a or b`.
Or(a, b) == IF Truthy(a) THEN a ELSE b

-----------------------------------------------------------------------------
(* The environment *)

DefaultPort == <<"5", "8", "7">>

Environments ==
    [SMTP_HOST : {None, <<"h">>},
     SMTP_PORT : {None, <<>>, <<"0">>, <<"2", "5">>, <<"s", "m", "t", "p">>},
     SMTP_USER : {None, <<>>, <<"u">>},
     SMTP_PASS : {None, <<"p">>},
     SMTP_FROM : {None, <<>>, <<"f">>},
     SMTP_TO : {None, <<>>, <<"t">>},
     CONTACT_RECIPIENT : {None, <<"c">>}]

\* os.getenv(key)
getenv(e, key) == e[key]

\* os.getenv(key, default)
getenv_default(e, key, default) == IF e[key] = None THEN default ELSE e[key]

-----------------------------------------------------------------------------
(* int(str) *)

Digits == {"0", "1", "2", "3", "4", "5", "6", "7", "8", "9"}

DigitVal(c) ==
    CASE c = "0" -> 0 [] c = "1" -> 1 [] c = "2" -> 2 [] c = "3" -> 3
      [] c = "4" -> 4 [] c = "5" -> 5 [] c = "6" -> 6 [] c = "7" -> 7
      [] c = "8" -> 8 [] c = "9" -> 9

RECURSIVE DigitsValue(_)
DigitsValue(s) ==
    IF s = <<>> THEN 0
    ELSE 10 * DigitsValue(SubSeq(s, 1, Len(s) - 1)) + DigitVal(s[Len(s)])

\* int(s): a ValueError unless s is an optional sign followed by digits.
int(s) ==
    LET signed == s # <<>> /\ s[1] \in {"+", "-"}
        body == IF signed THEN Tail(s) ELSE s
    IN  IF body = <<>> \/ \E i \in 1..Len(body) : body[i] \notin Digits
        THEN [ok |-> FALSE, val |-> 0]
        ELSE [ok |-> TRUE,
              val |-> IF signed /\ s[1] = "-" THEN 0 - DigitsValue(body)
                      ELSE DigitsValue(body)]

-----------------------------------------------------------------------------
(* Validation of the request body: ContactRequest.email is an EmailStr *)

\* The longest of the enumerated request emails.
MaxEmailLen == 3

EmailChars == {"a", "@", "."}

\* Every text over EmailChars of at most MaxEmailLen characters, and some
\* longer addresses and near-addresses.
Emails ==
    UNION {[1..n -> EmailChars] : n \in 0..MaxEmailLen}
    \cup {<<"a", "@", "b", ".", "c">>,
          <<"a", ".", "d", "@", "b", ".", "c">>,
          <<"a", "b", ".", "c">>,
          <<"@", "b", ".", "c">>,
          <<"a", "@", "b">>,
          <<"a", "@", "b", ".">>,
          <<".", "a", "@", "b", ".", "c">>,
          <<"a", "@", "@", "b", ".", "c">>}

\* The parts of s between occurrences of sep.
RECURSIVE Split(_, _)
Split(s, sep) ==
    IF \A i \in 1..Len(s) : s[i] # sep THEN <<s>>
    ELSE LET k == CHOOSE i \in 1..Len(s) :
                      s[i] = sep /\ \A j \in 1..(i - 1) : s[j] # sep
         IN  <<SubSeq(s, 1, k - 1)>> \o Split(SubSeq(s, k + 1, Len(s)), sep)

\* Address syntax: one "@", a dot-atom local part, a domain of at least two
\* non-empty labels.
IsValidEmail(s) ==
    LET parts == Split(s, "@")
    IN  /\ Len(parts) = 2
        /\ \A i \in 1..Len(Split(parts[1], ".")) : Split(parts[1], ".")[i] # <<>>
        /\ Len(Split(parts[2], ".")) >= 2
        /\ \A i \in 1..Len(Split(parts[2], ".")) : Split(parts[2], ".")[i] # <<>>

-----------------------------------------------------------------------------
(* The response bodies *)

NotConfiguredMessage ==
    "Contact saved. Email service not configured on server. Please set SMTP environment variables to enable email sending."

ThanksMessage ==
    "Thanks! Your message has been received. We'll get back to you shortly."

NoResponse ==
    [status |-> "pending", ok |-> FALSE, stored |-> FALSE, email_sent |-> FALSE,
     message |-> ""]

\* 422: the body failed validation; the handler never ran.
ValidationError == [NoResponse EXCEPT !.status = "422"]

\* 500: an exception left submit_contact.
ServerError == [NoResponse EXCEPT !.status = "500"]

\* A process-wide _id: set by whichever submission stored last.
StoredShared(r) == \E q \in Requests : Truthy(_id[q])

\* bool(_id)
Stored(r) == Truthy(_id[r])

NotConfiguredResponse(r) ==
    [status |-> "200", ok |-> TRUE, stored |-> Stored(r), email_sent |-> FALSE,
     message |-> NotConfiguredMessage]

ThanksResponse(r) ==
    [status |-> "200", ok |-> TRUE, stored |-> Stored(r),
     email_sent |-> email_sent[r], message |-> ThanksMessage]

-----------------------------------------------------------------------------
(* Mail configuration *)

NoConfig ==
    [smtp_host |-> None, smtp_port |-> 0, smtp_user |-> None, smtp_pass |-> None,
     smtp_from |-> None, smtp_to |-> None]

\* Lines 85-90, given that int() returned.
MailConfig(e) ==
    [smtp_host |-> getenv(e, "SMTP_HOST"),
     smtp_port |-> int(getenv_default(e, "SMTP_PORT", DefaultPort)).val,
     smtp_user |-> getenv(e, "SMTP_USER"),
     smtp_pass |-> getenv(e, "SMTP_PASS"),
     smtp_from |-> Or(getenv(e, "SMTP_FROM"), getenv(e, "SMTP_USER")),
     smtp_to |-> Or(getenv(e, "SMTP_TO"), getenv(e, "CONTACT_RECIPIENT"))]

\* The condition of line 92, without its `not`.
Configured(c) ==
    /\ Truthy(c.smtp_host)
    /\ c.smtp_port # 0
    /\ Truthy(c.smtp_user)
    /\ Truthy(c.smtp_pass)
    /\ Truthy(c.smtp_from)
    /\ Truthy(c.smtp_to)

Timeout == 15

-----------------------------------------------------------------------------
(* The collaborators *)

\* Identifiers create_document may hand back.
Identifiers == {<<>>, <<"6", "5", "f">>}

Init ==
    /\ env \in Environments
    /\ db \in {"None", "connected"}
    /\ documents = {}
    /\ pc = [r \in Requests |-> "idle"]
    /\ payload = [r \in Requests |-> None]
    /\ _id = [r \in Requests |-> None]
    /\ cfg = [r \in Requests |-> NoConfig]
    /\ exc = [r \in Requests |-> FALSE]
    /\ email_sent = [r \in Requests |-> FALSE]
    /\ resp = [r \in Requests |-> NoResponse]
    /\ storeLog = [r \in Requests |-> <<>>]
    /\ smtpLog = [r \in Requests |-> <<>>]
    /\ envLog = [r \in Requests |-> <<>>]

\* The email field declared as a plain str: every body reaches the handler.
ValidateUnchecked(r) ==
    /\ pc[r] = "idle"
    /\ \E email \in Emails : payload' = [payload EXCEPT ![r] = email]
    /\ pc' = [pc EXCEPT ![r] = "store"]
    /\ UNCHANGED <<env, db, documents, _id, cfg, exc, email_sent, resp, storeLog,
                   smtpLog, envLog>>

\* The framework parses the body into a ContactRequest before calling the
\* handler; a body whose email is not an address is answered with 422.
Validate(r) ==
    /\ pc[r] = "idle"
    /\ \E email \in Emails :
        /\ payload' = [payload EXCEPT ![r] = email]
        /\ IF IsValidEmail(email)
           THEN /\ pc' = [pc EXCEPT ![r] = "store"]
                /\ resp' = resp
           ELSE /\ pc' = [pc EXCEPT ![r] = "done"]
                /\ resp' = [resp EXCEPT ![r] = ValidationError]
    /\ UNCHANGED <<env, db, documents, _id, cfg, exc, email_sent, storeLog,
                   smtpLog, envLog>>

\* create_document("contactmessage", contact_doc): raises when there is no
\* database or the insert fails, else inserts and returns the identifier.
CreateDocument(r) ==
    /\ pc[r] = "store"
    /\ \/ /\ db = "None"
          /\ storeLog' = [storeLog EXCEPT ![r] = Append(@, [raised |-> TRUE, id |-> None])]
          /\ _id' = [_id EXCEPT ![r] = None]
          /\ UNCHANGED documents
       \/ /\ db # "None"
          /\ storeLog' = [storeLog EXCEPT ![r] = Append(@, [raised |-> TRUE, id |-> None])]
          /\ _id' = [_id EXCEPT ![r] = None]
          /\ UNCHANGED documents
       \/ /\ db # "None"
          /\ \E id \in Identifiers :
              /\ storeLog' = [storeLog EXCEPT ![r] = Append(@, [raised |-> FALSE, id |-> id])]
              /\ _id' = [_id EXCEPT ![r] = id]
              /\ documents' = documents \cup {[by |-> r, email |-> payload[r]]}
    /\ pc' = [pc EXCEPT ![r] = "config"]
    /\ UNCHANGED <<env, db, payload, cfg, exc, email_sent, resp, smtpLog, envLog>>

\* Lines 85-90: the six locals are read from the environment; int() of a
\* SMTP_PORT that is no integer raises out of the handler.
LoadMailConfig(r) ==
    /\ pc[r] = "config"
    /\ envLog' = [envLog EXCEPT ![r] = Append(@, env)]
    /\ IF int(getenv_default(env, "SMTP_PORT", DefaultPort)).ok
       THEN /\ cfg' = [cfg EXCEPT ![r] = MailConfig(env)]
            /\ pc' = [pc EXCEPT ![r] = "check"]
            /\ resp' = resp
       ELSE /\ cfg' = [cfg EXCEPT ![r].smtp_host = getenv(env, "SMTP_HOST")]
            /\ pc' = [pc EXCEPT ![r] = "done"]
            /\ resp' = [resp EXCEPT ![r] = ServerError]
    /\ UNCHANGED <<env, db, documents, payload, _id, exc, email_sent, storeLog,
                   smtpLog>>

\* Lines 92-99.
CheckMailConfig(r) ==
    /\ pc[r] = "check"
    /\ IF Configured(cfg[r])
       THEN /\ pc' = [pc EXCEPT ![r] = "connect"]
            /\ resp' = resp
       ELSE /\ pc' = [pc EXCEPT ![r] = "done"]
            /\ resp' = [resp EXCEPT ![r] = NotConfiguredResponse(r)]
    /\ UNCHANGED <<env, db, documents, payload, _id, cfg, exc, email_sent,
                   storeLog, smtpLog, envLog>>

\* One call on the relay, as the relay sees it: ok is "the call returned".
Command(name, ok, args) == [cmd |-> name, ok |-> ok, args |-> args]

\* A second connection attempt after a failed one.
ConnectWithRetry(r) ==
    /\ pc[r] = "connect"
    /\ \E ok \in BOOLEAN :
        /\ smtpLog' = [smtpLog EXCEPT ![r] = Append(@,
               Command("connect", ok, <<cfg[r].smtp_host, cfg[r].smtp_port, Timeout>>))]
        /\ IF ok
           THEN /\ pc' = [pc EXCEPT ![r] = "starttls"]
                /\ email_sent' = email_sent
           ELSE /\ pc' = [pc EXCEPT ![r] = IF smtpLog[r] = <<>> THEN "connect" ELSE "compose"]
                /\ email_sent' = [email_sent EXCEPT ![r] = FALSE]
    /\ UNCHANGED <<env, db, documents, payload, _id, cfg, exc, resp, storeLog,
                   envLog>>

\* smtplib.SMTP(smtp_host, smtp_port, timeout=15): when the constructor
\* raises, the with body is never entered.
Connect(r) ==
    /\ pc[r] = "connect"
    /\ \E ok \in BOOLEAN :
        /\ smtpLog' = [smtpLog EXCEPT ![r] = Append(@,
               Command("connect", ok, <<cfg[r].smtp_host, cfg[r].smtp_port, Timeout>>))]
        /\ IF ok
           THEN /\ pc' = [pc EXCEPT ![r] = "starttls"]
                /\ email_sent' = email_sent
           ELSE /\ pc' = [pc EXCEPT ![r] = "compose"]
                /\ email_sent' = [email_sent EXCEPT ![r] = FALSE]
    /\ UNCHANGED <<env, db, documents, payload, _id, cfg, exc, resp, storeLog,
                   envLog>>

\* Each command in a try of its own: a failure does not skip the next command.
SessionStepContinuing(r, at, name, args, next) ==
    /\ pc[r] = at
    /\ \E ok \in BOOLEAN :
        /\ smtpLog' = [smtpLog EXCEPT ![r] = Append(@, Command(name, ok, args))]
        /\ exc' = [exc EXCEPT ![r] = exc[r] \/ ~ok]
        /\ pc' = [pc EXCEPT ![r] = next]
    /\ UNCHANGED <<env, db, documents, payload, _id, cfg, email_sent, resp,
                   storeLog, envLog>>

\* One command of the with body: on failure the rest of the body is skipped
\* and the exception reaches the with statement's exit.
SessionStep(r, at, name, args, next) ==
    /\ pc[r] = at
    /\ \E ok \in BOOLEAN :
        /\ smtpLog' = [smtpLog EXCEPT ![r] = Append(@, Command(name, ok, args))]
        /\ exc' = [exc EXCEPT ![r] = ~ok]
        /\ pc' = [pc EXCEPT ![r] = IF ok THEN next ELSE "exit"]
    /\ UNCHANGED <<env, db, documents, payload, _id, cfg, email_sent, resp,
                   storeLog, envLog>>

\* server.starttls()
StartTLS(r) == SessionStep(r, "starttls", "starttls", <<>>, "login")

\* server.login(smtp_user, smtp_pass)
Login(r) ==
    SessionStep(r, "login", "login", <<cfg[r].smtp_user, cfg[r].smtp_pass>>, "sendmail")

\* server.sendmail(smtp_from, [smtp_to], msg.as_string())
Sendmail(r) ==
    SessionStep(r, "sendmail", "sendmail", <<cfg[r].smtp_from, cfg[r].smtp_to>>, "exit")

\* Leaving the with statement: SMTP.__exit__ sends QUIT and closes.  A lost
\* connection is ignored; any other reply than 221 raises ("refused").  Then
\* line 120 runs, unless an exception is propagating, in which case line 122
\* does.  The logged ok is "the call did not raise".
Quit(r) ==
    /\ pc[r] = "exit"
    /\ \E reply \in {"221", "disconnected", "refused"} :
        /\ smtpLog' = [smtpLog EXCEPT ![r] = Append(@,
               Command("quit", reply # "refused", <<reply>>))]
        /\ email_sent' = [email_sent EXCEPT ![r] = ~exc[r] /\ reply # "refused"]
    /\ exc' = [exc EXCEPT ![r] = FALSE]
    /\ pc' = [pc EXCEPT ![r] = "compose"]
    /\ UNCHANGED <<env, db, documents, payload, _id, cfg, resp, storeLog, envLog>>

\* Lines 124-129.
Respond(r) ==
    /\ pc[r] = "compose"
    /\ resp' = [resp EXCEPT ![r] = ThanksResponse(r)]
    /\ pc' = [pc EXCEPT ![r] = "done"]
    /\ UNCHANGED <<env, db, documents, payload, _id, cfg, exc, email_sent,
                   storeLog, smtpLog, envLog>>

\* Everything submit_contact does for request r.
Handle(r) ==
    \/ Validate(r)
    \/ CreateDocument(r)
    \/ LoadMailConfig(r)
    \/ CheckMailConfig(r)
    \/ Connect(r)
    \/ StartTLS(r)
    \/ Login(r)
    \/ Sendmail(r)
    \/ Quit(r)
    \/ Respond(r)

Next == Handle(1)

\* One submission, under every environment of Environments.
Spec == Init /\ [][Next]_vars

-----------------------------------------------------------------------------
(* Two submissions in flight while the environment is being changed *)

Unset ==
    [SMTP_HOST |-> None, SMTP_PORT |-> None, SMTP_USER |-> None, SMTP_PASS |-> None,
     SMTP_FROM |-> None, SMTP_TO |-> None, CONTACT_RECIPIENT |-> None]

Deployed ==
    [Unset EXCEPT !.SMTP_HOST = <<"h">>, !.SMTP_USER = <<"u">>,
                  !.SMTP_PASS = <<"p">>, !.CONTACT_RECIPIENT = <<"c">>]

Redeployments == {Unset, Deployed, [Deployed EXCEPT !.SMTP_PORT = <<"s", "m", "t", "p">>]}

InitConc == Init /\ env \in Redeployments

\* The environment of the process is replaced between any two steps.
SetEnv ==
    /\ \E e \in Redeployments : e # env /\ env' = e
    /\ UNCHANGED <<db, documents, pc, payload, _id, cfg, exc, email_sent, resp,
                   storeLog, smtpLog, envLog>>

NextConc == (\E r \in Requests : Handle(r)) \/ SetEnv

SpecConc == InitConc /\ [][NextConc]_vars

-----------------------------------------------------------------------------
(* What the claims speak of *)

Done(r) == pc[r] = "done"

\* The submission passed validation and the handler was entered.
Valid(r) == payload[r] # None /\ IsValidEmail(payload[r])

Invalid(r) == payload[r] # None /\ ~IsValidEmail(payload[r])

\* The create_document call of r raised (no database, or a failed insert).
StoreFailed(r) == storeLog[r] # <<>> /\ storeLog[r][1].raised

\* The create_document call of r returned.
StoreCompleted(r) == storeLog[r] # <<>> /\ ~storeLog[r][1].raised

Issued(r, name) == {i \in 1..Len(smtpLog[r]) : smtpLog[r][i].cmd = name}

Connections(r) == Cardinality(Issued(r, "connect"))

RelaySteps == {"connect", "starttls", "login", "sendmail"}

\* Some step of the relay sequence of r raised.
StepFailed(r) ==
    \E i \in 1..Len(smtpLog[r]) : smtpLog[r][i].cmd \in RelaySteps /\ ~smtpLog[r][i].ok

\* connect, STARTTLS, login and send were issued in that order and all returned.
AllStepsSucceeded(r) ==
    /\ Len(smtpLog[r]) >= 4
    /\ \A i \in 1..4 : smtpLog[r][i].ok
    /\ <<smtpLog[r][1].cmd, smtpLog[r][2].cmd, smtpLog[r][3].cmd, smtpLog[r][4].cmd>>
           = <<"connect", "starttls", "login", "sendmail">>

\* The six effective values as the specification words them, as texts.
Effective(e) ==
    [host |-> e.SMTP_HOST,
     port |-> IF e.SMTP_PORT = None THEN <<"5", "8", "7">> ELSE e.SMTP_PORT,
     user |-> e.SMTP_USER,
     pass |-> e.SMTP_PASS,
     from |-> IF Truthy(e.SMTP_FROM) THEN e.SMTP_FROM ELSE e.SMTP_USER,
     to |-> IF Truthy(e.SMTP_TO) THEN e.SMTP_TO ELSE e.CONTACT_RECIPIENT]

AllSixPresent(e) ==
    \A k \in {"host", "port", "user", "pass", "from", "to"} : Truthy(Effective(e)[k])

-----------------------------------------------------------------------------
(* The claims *)

\* C1: every valid submission, under every environment and every outcome of
\* the store and the relay, is answered with a success response with ok=true;
\* nothing is raised after validation.
C1_ValidAlwaysOk ==
    \A r \in Requests :
        Done(r) /\ Valid(r) => resp[r].status = "200" /\ resp[r].ok

\* C2: a submission whose email is not a syntactically valid address ends in
\* the validation error, with no store call, no stored document and no relay
\* command at any point of the request.
C2_InvalidEmailNoSideEffect ==
    \A r \in Requests :
        Invalid(r) =>
            /\ Done(r)
            /\ resp[r] = ValidationError
            /\ storeLog[r] = <<>>
            /\ smtpLog[r] = <<>>
            /\ \A d \in documents : d.by # r

C2_Witness ==
    \E r \in Requests : Invalid(r) /\ payload[r] # <<>> /\ resp[r].status = "422"

\* C3: when the store call fails or there is no store, the failure is
\* swallowed, the response has stored=false, the mail configuration is still
\* evaluated, and with a complete configuration the relay is still contacted.
C3_StoreFailureStillAnswered ==
    \A r \in Requests :
        Done(r) /\ StoreFailed(r) =>
            /\ resp[r].status = "200"
            /\ ~resp[r].stored
            /\ envLog[r] # <<>>
            /\ Configured(cfg[r]) => Connections(r) = 1

\* C4: for a valid submission, when one of the six effective mail values is
\* missing, the response has email_sent=false and the "not configured"
\* message, and the relay is never contacted.
C4_MissingValueNotConfigured ==
    \A r \in Requests :
        Done(r) /\ Valid(r) /\ ~AllSixPresent(envLog[r][1]) =>
            /\ resp[r].status = "200"
            /\ ~resp[r].email_sent
            /\ resp[r].message = NotConfiguredMessage
            /\ smtpLog[r] = <<>>

\* C5: with a complete mail configuration, once a step of connect, STARTTLS,
\* login, send fails, no later step and no second attempt is made, and the
\* response has email_sent=false with the "thanks" message.
C5_FailedStepEndsSession ==
    \A r \in Requests :
        /\ \A i, j \in 1..Len(smtpLog[r]) :
               i < j /\ ~smtpLog[r][i].ok => smtpLog[r][j].cmd \notin RelaySteps
        /\ \A name \in RelaySteps : Cardinality(Issued(r, name)) <= 1
        /\ Done(r) /\ StepFailed(r) =>
               /\ Valid(r) /\ Configured(cfg[r])
               /\ resp[r].status = "200" /\ resp[r].ok
               /\ ~resp[r].email_sent
               /\ resp[r].message = ThanksMessage

C5_Witness ==
    \E r \in Requests :
        /\ Done(r)
        /\ Len(smtpLog[r]) = 4
        /\ smtpLog[r][3] = Command("login", FALSE, <<cfg[r].smtp_user, cfg[r].smtp_pass>>)
        /\ resp[r].message = ThanksMessage /\ ~resp[r].email_sent

\* C6: with a complete mail configuration, when connect, STARTTLS, login and
\* send all succeed in that order the response has email_sent=true and the
\* "thanks" message; and email_sent=true is reported only after a successful
\* send.
C6_SentWhenAllStepsSucceed ==
    \A r \in Requests :
        /\ Done(r) /\ AllStepsSucceeded(r) =>
               resp[r].email_sent /\ resp[r].message = ThanksMessage
        /\ resp[r].email_sent => AllStepsSucceeded(r)

\* C7: one submission issues at most one store write and opens at most one
\* relay connection, repeats no relay command, and a document it stored stays
\* stored whatever the mail step does.
C7_AtMostOnce ==
    \A r \in Requests :
        /\ Len(storeLog[r]) <= 1
        /\ Cardinality({d \in documents : d.by = r}) <= 1
        /\ Connections(r) <= 1
        /\ \A name \in RelaySteps \cup {"quit"} : Cardinality(Issued(r, name)) <= 1
        /\ StoreCompleted(r) => [by |-> r, email |-> payload[r]] \in documents

C7_Witness ==
    \E r \in Requests :
        /\ Done(r)
        /\ StoreCompleted(r)
        /\ [by |-> r, email |-> payload[r]] \in documents
        /\ Connections(r) = 1
        /\ ~smtpLog[r][1].ok

\* C8: in every response, stored=true exactly when the create call of this
\* request completed without error, whatever identifier it returned.
C8_StoredIffCreated ==
    \A r \in Requests :
        resp[r].status = "200" => (resp[r].stored <=> StoreCompleted(r))

\* C9: whenever host, port (SMTP_PORT, or 587 when unset), user, password,
\* from (SMTP_FROM or else SMTP_USER) and to (SMTP_TO or else
\* CONTACT_RECIPIENT) are all non-empty, one connection is opened with those
\* values and the "not configured" response is not returned.
C9_AttemptedWhenAllSixPresent ==
    \A r \in Requests :
        Done(r) /\ Valid(r) /\ AllSixPresent(envLog[r][1]) =>
            /\ Connections(r) = 1
            /\ smtpLog[r][1].args[1] = Effective(envLog[r][1]).host
            /\ resp[r].message # NotConfiguredMessage

\* What the submission's own store outcome, own relay outcomes and own reading
\* of the environment make of the response.
OwnResponse(r) ==
    LET stored == StoreCompleted(r) /\ storeLog[r][1].id # <<>>
        own == MailConfig(envLog[r][1])
        sent == /\ AllStepsSucceeded(r)
                /\ Len(smtpLog[r]) = 5
                /\ smtpLog[r][5].ok
    IN  IF ~Configured(own)
        THEN [status |-> "200", ok |-> TRUE, stored |-> stored, email_sent |-> FALSE,
              message |-> NotConfiguredMessage]
        ELSE [status |-> "200", ok |-> TRUE, stored |-> stored, email_sent |-> sent,
              message |-> ThanksMessage]

\* C10: under every interleaving of two submissions and of changes of the
\* environment, each response is the one its own store outcome, its own relay
\* outcomes and the environment it read during its own call determine.
C10_ResponseFromOwnOutcomes ==
    \A r \in Requests :
        /\ resp[r].status = "200" => resp[r] = OwnResponse(r)
        /\ resp[r].status = "500" =>
               ~int(getenv_default(envLog[r][1], "SMTP_PORT", DefaultPort)).ok
        /\ envLog[r] # <<>> /\ int(getenv_default(envLog[r][1], "SMTP_PORT", DefaultPort)).ok
               => cfg[r] = MailConfig(envLog[r][1])

\* Both answered, one under an environment without mail settings and one
\* under a complete one, with different store outcomes.
C10_Witness ==
    /\ resp[1].status = "200" /\ resp[2].status = "200"
    /\ envLog[1] # envLog[2]
    /\ resp[1].message = NotConfiguredMessage /\ resp[2].email_sent
    /\ resp[1].stored /\ ~resp[2].stored

====
